---- MODULE Spec2Model ----
(***************************************************************************)
(* Sunset visibility: the visibility resolver (check_sunset,               *)
(* analyze_horizon, analyze_sunset_visibility), the circular containment   *)
(* test is_bearing_in_range, the shoreline analysis analyze_coastline,     *)
(* create_beach_from_coords, the sunset solver find_sunset, the ephemeris  *)
(* sun_position and the fetchers fetch_coastline and fetch_with_retry.     *)
(*                                                                         *)
(* Angles are fixed-point numbers in units of half a degree, so that the   *)
(* thresholds 0.5, 1, 1.5 and 2.5 degrees of the source are exact.         *)
(* Distances are whole metres.  Every operation of the source is a call:   *)
(* an action takes its arguments from the input sets below, runs the whole *)
(* function and leaves the arguments and the returned value in the state;  *)
(* Return discards them (no entity persists across calls).  The two        *)
(* functions with a loop of their own run turn by turn: find_sunset under  *)
(* SolverSpec and fetch_with_retry under FetchSpec, which also holds       *)
(* fetch_coastline; sun_position is called under SunSpec.                  *)
(***************************************************************************)
EXTENDS Integers, Sequences, FiniteSets, TLC

VARIABLES op, args, ret

vars == <<op, args, ret>>

(***************************************************************************)
(* Units and arithmetic helpers.                                           *)
(***************************************************************************)
Deg(x) == 2 * x

HalfDeg == Deg(1) \div 2

FULL == Deg(360)

Abs(x) == IF x < 0 THEN -x ELSE x

SetMin(S) == CHOOSE x \in S : \A y \in S : x <= y

SetMax(S) == CHOOSE x \in S : \A y \in S : y <= x

\* Minimal angular distance between two azimuths on the circle.
AngDist(a, b) == LET d == (a - b) % FULL IN IF d > FULL - d THEN FULL - d ELSE d

None == "None"

\* args and ret while no call is under way
NoCall == [called |-> FALSE]

(***************************************************************************)
(* Bounds of the input space.                                              *)
(***************************************************************************)
MaxObstructions == 2

MaxScenic == 2

SeqsUpTo(S, n) == UNION {[1..k -> S] : k \in 0..n}

(***************************************************************************)
(* coastline_analyzer.py: is_bearing_in_range                              *)
(***************************************************************************)
\* A variant that forgets to normalise its arguments.
is_bearing_in_range_raw(bearing, start, end) ==
    IF start <= end
    THEN start <= bearing /\ bearing <= end
    ELSE bearing >= start \/ bearing <= end

is_bearing_in_range(bearing, start, end) ==
    LET b == bearing % FULL
        s == start % FULL
        e == end % FULL
    IN  IF s <= e
        THEN s <= b /\ b <= e
        ELSE b >= s \/ b <= e

(***************************************************************************)
(* sunset_check.py: check_sunset (the visibility part, lines 215-235) and  *)
(* the reason line of print_results.                                       *)
(***************************************************************************)
ObstructionHits(beach, az) ==
    {i \in 1..Len(beach.obstructions) :
        /\ beach.obstructions[i].obs_start <= az
        /\ az <= beach.obstructions[i].obs_end}

NoScenic == [name |-> None, alignment |-> None]

\* A variant in which a scenic feature in line with the sun blocks the view.
check_sunset_scenic_blocks(beach, az) ==
    LET in_view == IF beach.ocean_view_start <= beach.ocean_view_end
                   THEN beach.ocean_view_start <= az /\ az <= beach.ocean_view_end
                   ELSE az >= beach.ocean_view_start \/ az <= beach.ocean_view_end
        hits == ObstructionHits(beach, az)
        shits == {i \in 1..Len(beach.scenic_features) :
                    Abs(az - beach.scenic_features[i].az_center)
                        <= beach.scenic_features[i].az_width}
    IN  [sun_sets_over_ocean |-> in_view /\ hits = {} /\ shits = {},
         obstruction |-> IF hits = {} THEN None
                         ELSE beach.obstructions[SetMin(hits)].description,
         scenic_feature |->
            IF shits = {} THEN NoScenic
            ELSE LET f == beach.scenic_features[SetMax(shits)]
                 IN  [name |-> f.name,
                      alignment |-> IF Abs(az - f.az_center) < Deg(1)
                                    THEN "direct" ELSE "near"]]

check_sunset(beach, az) ==
    LET \* lines 216-220: the view window, with wraparound
        in_view == IF beach.ocean_view_start <= beach.ocean_view_end
                   THEN beach.ocean_view_start <= az /\ az <= beach.ocean_view_end
                   ELSE az >= beach.ocean_view_start \/ az <= beach.ocean_view_end
        \* lines 223-228: the first obstruction whose plain interval holds az
        hits == ObstructionHits(beach, az)
        \* lines 231-235: every scenic feature is tried, the last match stays
        shits == {i \in 1..Len(beach.scenic_features) :
                    Abs(az - beach.scenic_features[i].az_center)
                        <= beach.scenic_features[i].az_width}
    IN  [sun_sets_over_ocean |-> in_view /\ hits = {},
         obstruction |-> IF hits = {} THEN None
                         ELSE beach.obstructions[SetMin(hits)].description,
         scenic_feature |->
            IF shits = {} THEN NoScenic
            ELSE LET f == beach.scenic_features[SetMax(shits)]
                 IN  [name |-> f.name,
                      alignment |-> IF Abs(az - f.az_center) < Deg(1)
                                    THEN "direct" ELSE "near"]]

print_results_reason(r) ==
    IF r.sun_sets_over_ocean THEN "over the ocean"
    ELSE IF r.obstruction # None THEN "blocked by obstruction"
    ELSE "outside ocean view range"

(***************************************************************************)
(* sunset_visibility.py: analyze_horizon and the visibility part of        *)
(* analyze_sunset_visibility.                                              *)
(***************************************************************************)
\* A variant that does not look at the obstructions.
analyze_horizon_unobstructed(beach, sun_azimuth) ==
    IF beach.ocean_view_start <= sun_azimuth /\ sun_azimuth <= beach.ocean_view_end
    THEN [is_visible |-> TRUE, reason |-> "clear", label |-> None]
    ELSE IF sun_azimuth < beach.ocean_view_start
         THEN [is_visible |-> FALSE, reason |-> "too far south", label |-> None]
         ELSE [is_visible |-> FALSE, reason |-> "too far north", label |-> None]

analyze_horizon(beach, sun_azimuth) ==
    IF beach.ocean_view_start <= sun_azimuth /\ sun_azimuth <= beach.ocean_view_end
    THEN LET hits == ObstructionHits(beach, sun_azimuth)
         IN  IF hits # {}
             THEN [is_visible |-> FALSE, reason |-> "blocked",
                   label |-> beach.obstructions[SetMin(hits)].description]
             ELSE [is_visible |-> TRUE, reason |-> "clear", label |-> None]
    ELSE IF sun_azimuth < beach.ocean_view_start
         THEN [is_visible |-> FALSE, reason |-> "too far south", label |-> None]
         ELSE [is_visible |-> FALSE, reason |-> "too far north", label |-> None]

analyze_sunset_visibility(beach, az) ==
    LET h == analyze_horizon(beach, az)
        shits == {i \in 1..Len(beach.scenic_features) :
                    LET f == beach.scenic_features[i]
                    IN  f.az_center - f.az_width <= az /\ az <= f.az_center + f.az_width}
    IN  [sun_sets_over_ocean |-> h.is_visible,
         reason |-> h.reason,
         label |-> h.label,
         scenic_feature |->
            IF ~h.is_visible \/ shits = {} THEN NoScenic
            ELSE LET f == beach.scenic_features[SetMax(shits)]
                     distance_from_center == Abs(az - f.az_center)
                 IN  [name |-> f.name,
                      alignment |-> IF distance_from_center < HalfDeg THEN "direct"
                                    ELSE IF distance_from_center < Deg(1) + HalfDeg
                                         THEN "adjacent"
                                         ELSE "nearby"]]

(***************************************************************************)
(* coastline_analyzer.py: analyze_coastline.                               *)
(*                                                                         *)
(* math.sin and math.cos are a table of sines at every half degree, scaled *)
(* by 10000; math.atan2 is the half-degree direction nearest to the vector *)
(* (cos_sum, sin_sum).  A shoreline fetch yields the segments of its ways, *)
(* each with the distance (point_to_segment_distance) and the bearing      *)
(* (bearing) the geometry of lines 420-433 gives it.                       *)
(***************************************************************************)
SinTable ==
    <<
      0, 87, 175, 262, 349, 436, 523, 610, 698, 785, 872, 958,
      1045, 1132, 1219, 1305, 1392, 1478, 1564, 1650, 1736, 1822, 1908, 1994,
      2079, 2164, 2250, 2334, 2419, 2504, 2588, 2672, 2756, 2840, 2924, 3007,
      3090, 3173, 3256, 3338, 3420, 3502, 3584, 3665, 3746, 3827, 3907, 3987,
      4067, 4147, 4226, 4305, 4384, 4462, 4540, 4617, 4695, 4772, 4848, 4924,
      5000, 5075, 5150, 5225, 5299, 5373, 5446, 5519, 5592, 5664, 5736, 5807,
      5878, 5948, 6018, 6088, 6157, 6225, 6293, 6361, 6428, 6494, 6561, 6626,
      6691, 6756, 6820, 6884, 6947, 7009, 7071, 7133, 7193, 7254, 7314, 7373,
      7431, 7490, 7547, 7604, 7660, 7716, 7771, 7826, 7880, 7934, 7986, 8039,
      8090, 8141, 8192, 8241, 8290, 8339, 8387, 8434, 8480, 8526, 8572, 8616,
      8660, 8704, 8746, 8788, 8829, 8870, 8910, 8949, 8988, 9026, 9063, 9100,
      9135, 9171, 9205, 9239, 9272, 9304, 9336, 9367, 9397, 9426, 9455, 9483,
      9511, 9537, 9563, 9588, 9613, 9636, 9659, 9681, 9703, 9724, 9744, 9763,
      9781, 9799, 9816, 9833, 9848, 9863, 9877, 9890, 9903, 9914, 9925, 9936,
      9945, 9954, 9962, 9969, 9976, 9981, 9986, 9990, 9994, 9997, 9998, 10000,
      10000
    >>

SinT(u) ==
    LET a == u % FULL
    IN  IF a <= Deg(90) THEN SinTable[a + 1]
        ELSE IF a <= Deg(180) THEN SinTable[Deg(180) - a + 1]
        ELSE IF a <= Deg(270) THEN -SinTable[a - Deg(180) + 1]
        ELSE -SinTable[FULL - a + 1]

CosT(u) == SinT(u + Deg(90))

\* The last half-degree step t in lo..hi-1 whose direction has the vector
\* (cos_sum, sin_sum) on its left or on it; lo has, hi has not.
RECURSIVE ArcFloor(_, _, _, _)
ArcFloor(lo, hi, sin_sum, cos_sum) ==
    IF hi - lo <= 1 THEN lo
    ELSE LET mid == (lo + hi) \div 2
         IN  IF CosT(mid) * sin_sum - SinT(mid) * cos_sum >= 0
             THEN ArcFloor(mid, hi, sin_sum, cos_sum)
             ELSE ArcFloor(lo, mid, sin_sum, cos_sum)

\* math.degrees(math.atan2(sin_sum, cos_sum)) % 360, to the nearest half
\* degree.  With both sums zero the floating-point residue of the sums
\* decides the angle: any direction, here `tie'.
Atan2Deg(sin_sum, cos_sum, tie) ==
    IF sin_sum = 0 /\ cos_sum = 0 THEN tie
    ELSE LET quadrant == IF sin_sum >= 0 /\ cos_sum > 0 THEN Deg(0)
                         ELSE IF sin_sum > 0 /\ cos_sum <= 0 THEN Deg(90)
                         ELSE IF sin_sum <= 0 /\ cos_sum < 0 THEN Deg(180)
                         ELSE Deg(270)
             Dot(t) == CosT(t) * cos_sum + SinT(t) * sin_sum
             lo == ArcFloor(quadrant, quadrant + Deg(90), sin_sum, cos_sum)
         IN  IF Dot(lo + 1) > Dot(lo) THEN (lo + 1) % FULL ELSE lo

NearbyLimit == 1000

SampleSize == 10

MinNearby == 3

IslandLimit == 10000

ExpandedRadius == 5000

SeqSum(f, n) ==
    LET S[k \in 0..n] == IF k = 0 THEN 0 ELSE S[k - 1] + f[k]
    IN  S[n]

\* line 440
ocean_direction(seg_bearing) == (seg_bearing + Deg(90)) % FULL

\* lines 415-416, 451-453: the first segment of strictly smallest distance
closest_segment(segs) ==
    SetMin({i \in 1..Len(segs) : \A j \in 1..Len(segs) : segs[i].dist <= segs[j].dist})

\* A variant that keeps the segments in the order of the ways.
nearby_segments_unsorted(segs) ==
    LET N == {i \in 1..Len(segs) : segs[i].dist < NearbyLimit}
    IN  [k \in 1..Cardinality(N) |->
            CHOOSE i \in N : Cardinality({j \in N : j < i}) = k - 1]

\* lines 463-464: the indices of the segments under 1000 m, in a stable
\* ascending sort by distance
nearby_segments(segs) ==
    LET N == {i \in 1..Len(segs) : segs[i].dist < NearbyLimit}
        Before(j, i) == \/ segs[j].dist < segs[i].dist
                        \/ segs[j].dist = segs[i].dist /\ j < i
    IN  [k \in 1..Cardinality(N) |->
            CHOOSE i \in N : Cardinality({j \in N : Before(j, i)}) = k - 1]

\* line 469: nearby_segments[:10]
sample_segments(segs) ==
    LET nb == nearby_segments(segs)
    IN  SubSeq(nb, 1, IF Len(nb) < SampleSize THEN Len(nb) ELSE SampleSize)

\* lines 473-475
avg_ocean_dir(ocean_dirs, tie) ==
    LET n == Len(ocean_dirs)
        sin_sum == SeqSum([k \in 1..n |-> SinT(ocean_dirs[k])], n)
        cos_sum == SeqSum([k \in 1..n |-> CosT(ocean_dirs[k])], n)
    IN  Atan2Deg(sin_sum, cos_sum, tie)

\* lines 478-483
max_deviation(ocean_dirs, avg) ==
    SetMax({Abs(((ocean_dirs[k] - avg + Deg(180)) % FULL) - Deg(180)) :
                k \in 1..Len(ocean_dirs)})

\* A variant with the first threshold written as 15 degrees.
view_estimate_loose(dev) ==
    IF dev < Deg(15) THEN [view_half_width |-> Deg(60), confidence |-> "high"]
    ELSE IF dev < Deg(25) THEN [view_half_width |-> Deg(50), confidence |-> "medium"]
    ELSE [view_half_width |-> Deg(40), confidence |-> "medium"]

\* lines 487-498
view_estimate(dev) ==
    IF dev < Deg(10) THEN [view_half_width |-> Deg(60), confidence |-> "high"]
    ELSE IF dev < Deg(25) THEN [view_half_width |-> Deg(50), confidence |-> "medium"]
    ELSE [view_half_width |-> Deg(40), confidence |-> "medium"]

\* A variant that averages whatever lies nearby, however few the segments.
orientation_always_averaged(segs, tie) ==
    LET sample == sample_segments(segs)
        dirs == [k \in 1..Len(sample) |-> ocean_direction(segs[sample[k]].bearing)]
    IN  IF Len(sample) >= 1
        THEN LET avg == avg_ocean_dir(dirs, tie)
                 est == view_estimate(max_deviation(dirs, avg))
             IN  [facing_azimuth |-> avg,
                  view_half_width |-> est.view_half_width,
                  confidence |-> est.confidence]
        ELSE [facing_azimuth |-> ocean_direction(segs[closest_segment(segs)].bearing),
              view_half_width |-> Deg(50),
              confidence |-> "low"]

\* lines 459-503: facing azimuth, half-width and confidence from the segments
orientation(segs, tie) ==
    LET sample == sample_segments(segs)
        dirs == [k \in 1..Len(sample) |-> ocean_direction(segs[sample[k]].bearing)]
    IN  IF Len(nearby_segments(segs)) >= MinNearby
        THEN LET avg == avg_ocean_dir(dirs, tie)
                 est == view_estimate(max_deviation(dirs, avg))
             IN  [facing_azimuth |-> avg,
                  view_half_width |-> est.view_half_width,
                  confidence |-> est.confidence]
        ELSE [facing_azimuth |-> ocean_direction(segs[closest_segment(segs)].bearing),
              view_half_width |-> Deg(50),
              confidence |-> "low"]

\* lake_center is None (lines 406-408): no lake, or no centre was found.
NoCenter == 0 - 1

\* A variant that trusts the orientation of the shoreline on a lake too.
lake_verified_unchecked(facing_azimuth, is_lake, bearing_to_lake) == facing_azimuth

\* lines 507-513
lake_verified(facing_azimuth, is_lake, bearing_to_lake) ==
    IF is_lake /\ bearing_to_lake # NoCenter
       /\ Abs(((facing_azimuth - bearing_to_lake + Deg(180)) % FULL) - Deg(180)) > Deg(90)
    THEN (facing_azimuth + Deg(180)) % FULL
    ELSE facing_azimuth

\* A variant whose island cutoff is written <= instead of <.
headland_warnings_islands_inclusive(features, ocean_view_start, ocean_view_end) ==
    LET Pick(kinds, limited) ==
            SelectSeq(features,
                LAMBDA f : /\ f.kind \in kinds
                           /\ is_bearing_in_range(f.bearing, ocean_view_start, ocean_view_end)
                           /\ (limited => f.distance_m <= IslandLimit))
        Names(s) == [k \in 1..Len(s) |-> s[k].name]
    IN  Names(Pick({"cape"}, FALSE)) \o Names(Pick({"peninsula"}, FALSE))
            \o Names(Pick({"island"}, TRUE))

\* lines 522-542: the advisories, capes and peninsulas first, then islands
headland_warnings(features, ocean_view_start, ocean_view_end) ==
    LET Pick(kinds, limited) ==
            SelectSeq(features,
                LAMBDA f : /\ f.kind \in kinds
                           /\ is_bearing_in_range(f.bearing, ocean_view_start, ocean_view_end)
                           /\ (limited => f.distance_m < IslandLimit))
        Names(s) == [k \in 1..Len(s) |-> s[k].name]
    IN  Names(Pick({"cape"}, FALSE)) \o Names(Pick({"peninsula"}, FALSE))
            \o Names(Pick({"island"}, TRUE))

\* lines 400-403: InlandLocationError is raised and no orientation returned;
\* the record keeps the radius of the message and the fetches made.
NoOrientation(radius, fetches) ==
    [error |-> "InlandLocationError", radius_m |-> radius, fetches |-> fetches]

\* A variant that lays the window round the facing azimuth as it was before
\* the lake check.
analyze_coastline_window_before_flip(radius_m, first, second, bearing_to_lake, features, tie) ==
    LET retry == first.segs = <<>>
        coastline_data == IF retry THEN second ELSE first
        radius == IF retry THEN ExpandedRadius ELSE radius_m
        fetches == IF retry THEN <<radius_m, ExpandedRadius>> ELSE <<radius_m>>
        segs == coastline_data.segs
    IN  IF segs = <<>> THEN NoOrientation(radius, fetches)
        ELSE LET o == orientation(segs, tie)
                 facing == lake_verified(o.facing_azimuth, coastline_data.is_lake,
                                         bearing_to_lake)
                 ocean_view_start == (o.facing_azimuth - o.view_half_width) % FULL
                 ocean_view_end == (o.facing_azimuth + o.view_half_width) % FULL
             IN  [error |-> None, radius_m |-> radius, fetches |-> fetches,
                  facing_azimuth |-> facing,
                  ocean_view_start |-> ocean_view_start,
                  ocean_view_end |-> ocean_view_end,
                  coastline_bearing |-> segs[closest_segment(segs)].bearing,
                  confidence |-> o.confidence,
                  headland_warnings |->
                      headland_warnings(features, ocean_view_start, ocean_view_end),
                  analysis_radius_m |-> radius,
                  is_lake |-> coastline_data.is_lake]

\* lines 384-559.  first and second are what fetch_coastline returns for
\* the requested radius and for the second fetch (read only when the first
\* has no ways); bearing_to_lake is the bearing to the centre that
\* get_lake_center returns, or NoCenter.  fetches lists the radii that
\* fetch_coastline was called with, radius_m is the variable's last value.
analyze_coastline(radius_m, first, second, bearing_to_lake, features, tie) ==
    LET retry == first.segs = <<>>
        coastline_data == IF retry THEN second ELSE first
        radius == IF retry THEN ExpandedRadius ELSE radius_m
        fetches == IF retry THEN <<radius_m, ExpandedRadius>> ELSE <<radius_m>>
        segs == coastline_data.segs
    IN  IF segs = <<>> THEN NoOrientation(radius, fetches)
        ELSE LET o == orientation(segs, tie)
                 facing == lake_verified(o.facing_azimuth, coastline_data.is_lake,
                                         bearing_to_lake)
                 ocean_view_start == (facing - o.view_half_width) % FULL
                 ocean_view_end == (facing + o.view_half_width) % FULL
             IN  [error |-> None, radius_m |-> radius, fetches |-> fetches,
                  facing_azimuth |-> facing,
                  ocean_view_start |-> ocean_view_start,
                  ocean_view_end |-> ocean_view_end,
                  coastline_bearing |-> segs[closest_segment(segs)].bearing,
                  confidence |-> o.confidence,
                  headland_warnings |->
                      headland_warnings(features, ocean_view_start, ocean_view_end),
                  analysis_radius_m |-> radius,
                  is_lake |-> coastline_data.is_lake]

\* analyze_coastline's default radius_m (line 362)
DefaultRadius == 2000

\* A variant that turns every headland warning into an obstruction.
create_beach_from_coords_obstructed(first, second, bearing_to_lake, features, tie) ==
    LET o == analyze_coastline(DefaultRadius, first, second, bearing_to_lake,
                               features, tie)
    IN  IF o.error # None
        THEN [ocean_view_start |-> Deg(225), ocean_view_end |-> Deg(315),
              obstructions |-> <<>>, scenic_features |-> <<>>,
              notes |-> [confidence |-> None, warnings |-> <<>>]]
        ELSE [ocean_view_start |-> o.ocean_view_start,
              ocean_view_end |-> o.ocean_view_end,
              obstructions |->
                  [k \in 1..Len(o.headland_warnings) |->
                      [obs_start |-> o.ocean_view_start, obs_end |-> o.ocean_view_end,
                       description |-> o.headland_warnings[k]]],
              scenic_features |-> <<>>,
              notes |-> [confidence |-> o.confidence,
                         warnings |-> o.headland_warnings]]

\* sunset_check.py lines 155-200: the beach built from an analysis, or the
\* west-facing default when the analysis raises.
create_beach_from_coords(first, second, bearing_to_lake, features, tie) ==
    LET o == analyze_coastline(DefaultRadius, first, second, bearing_to_lake,
                               features, tie)
    IN  IF o.error # None
        THEN [ocean_view_start |-> Deg(225), ocean_view_end |-> Deg(315),
              obstructions |-> <<>>, scenic_features |-> <<>>,
              notes |-> [confidence |-> None, warnings |-> <<>>]]
        ELSE [ocean_view_start |-> o.ocean_view_start,
              ocean_view_end |-> o.ocean_view_end,
              obstructions |-> <<>>, scenic_features |-> <<>>,
              notes |-> [confidence |-> o.confidence,
                         warnings |-> o.headland_warnings]]

(***************************************************************************)
(* find_sunset (sunset_visibility.py).  Instants are pairs <<k, u>>: k     *)
(* steps of 5 minutes after utc_noon plus u microseconds, the resolution   *)
(* of datetime.  The day's altitude curve is an input: find_sunset only    *)
(* compares sun_position(...).altitude with target_altitude, so a curve is *)
(* given by the instants between which the altitude is above the target.   *)
(***************************************************************************)
\* timedelta(minutes=5), lines 170 and 175
StepMinutes == 5

\* timedelta(hours=12), line 171
ScanHours == 12

\* range(20), line 178
BisectIterations == 20

StepUs == StepMinutes * 60 * 1000000

\* the last step that is not after utc_noon + 12 h
ScanLimit == (ScanHours * 60) \div StepMinutes

Instant(k, u) == IF u = StepUs THEN <<k + 1, 0>> ELSE <<k, u>>

Earlier(a, b) == a[1] < b[1] \/ (a[1] = b[1] /\ a[2] < b[2])

\* pos.altitude compared with target_altitude at instant t: 1 above, 0
\* equal, -1 below.  The altitude is above the target strictly between
\* curve.rise and curve.set and equals it at those two instants.
AltitudeSign(curve, t) ==
    IF Earlier(curve.rise, t) /\ Earlier(t, curve.set) THEN 1
    ELSE IF Earlier(curve.rise, curve.set) /\ t \in {curve.rise, curve.set} THEN 0
    ELSE 0 - 1

\* timedelta / 2 rounds to the nearest microsecond, halves to even
HalfOf(d) ==
    LET q == d \div 2
    IN  IF d % 2 = 0 \/ q % 2 = 0 THEN q ELSE q + 1

\* A variant whose scan gives up a day, not 12 hours, after utc_noon.
scan_step_one_day(curve, k) ==
    IF AltitudeSign(curve, <<k, 0>>) < 0
    THEN [pc |-> "bisect", base |-> k - 1, low |-> 0, high |-> StepUs, i |-> 0]
    ELSE IF k + 1 > 2 * ScanLimit
         THEN [pc |-> "raised", error |-> "ValueError", dt |-> k + 1]
         ELSE [pc |-> "scan", dt |-> k + 1]

\* lines 165-172, one turn of the coarse loop at dt = utc_noon + 5 min * k
scan_step(curve, k) ==
    IF AltitudeSign(curve, <<k, 0>>) < 0
    THEN [pc |-> "bisect", base |-> k - 1, low |-> 0, high |-> StepUs, i |-> 0]
    ELSE IF k + 1 > ScanLimit
         THEN [pc |-> "raised", error |-> "ValueError", dt |-> k + 1]
         ELSE [pc |-> "scan", dt |-> k + 1]

\* lines 178-184, one turn of the bisection; low and high are microseconds
\* after the instant <<base, 0>>
bisect_step(curve, s) ==
    LET mid == s.low + HalfOf(s.high - s.low)
    IN  IF AltitudeSign(curve, Instant(s.base, mid)) > 0
        THEN [s EXCEPT !.low = mid, !.i = s.i + 1]
        ELSE [s EXCEPT !.high = mid, !.i = s.i + 1]

\* lines 186-187: the position at the middle of the last interval
final_position(curve, s) ==
    LET final_time == s.low + HalfOf(s.high - s.low)
    IN  [pc |-> "done", base |-> s.base, low |-> s.low, high |-> s.high, i |-> s.i,
         time |-> Instant(s.base, final_time),
         altitude |-> AltitudeSign(curve, Instant(s.base, final_time))]

(***************************************************************************)
(* sunset_visibility.py: sun_position, from the true solar time on (lines  *)
(* 107-142).  The ephemeris above it (lines 61-106) ends in two numbers,   *)
(* the declination sun_declin and the equation of time eq_time; they are   *)
(* inputs here, eq_time as part of time_offset = eq_time + 4 * lon.        *)
(*                                                                         *)
(* Times are in units of 2 minutes, in which the hour angle grows by half  *)
(* a degree.  Sines, cosines and their products are fixed-point numbers    *)
(* with the scale of SinTable; a float operation rounds, and the rounding  *)
(* of the two sums that reach math.acos is an input: round1 and round2,    *)
(* one unit in the last place either way.                                  *)
(***************************************************************************)
\* % 1440, line 109
DayMinutes == 1440

Minutes(m) == m \div 2

\* 1.0 in the scale of SinTable
One == SinTable[Len(SinTable)]

\* a product of two fixed-point numbers, or a quotient, rounded to nearest
RoundDiv(a, b) == (2 * a + b) \div (2 * b)

\* max(-1, min(1, x)), line 127
Clamp(x) == IF x > One THEN One ELSE IF x < 0 - One THEN 0 - One ELSE x

RECURSIVE SqrtFloor(_, _, _)
SqrtFloor(lo, hi, n) ==
    IF hi - lo <= 1 THEN lo
    ELSE LET mid == (lo + hi) \div 2
         IN  IF mid * mid <= n THEN SqrtFloor(mid, hi, n) ELSE SqrtFloor(lo, mid, n)

\* math.sin(math.radians(zenith)) for zenith = acos(cos_zenith) in 0..180
SinOfAcos(c) == SqrtFloor(0, One + 1, One * One - c * c)

\* math.degrees(math.acos(num / den)) to the nearest half degree, for
\* den > 0 and |num| <= den; acos(1.0) is 0 and acos(-1.0) is pi exactly.
AcosDeg(num, den) ==
    IF num = den THEN Deg(0)
    ELSE IF num = 0 - den THEN Deg(180)
    ELSE LET lo == Cardinality({t \in Deg(0)..Deg(180) : CosT(t) * den >= One * num}) - 1
         IN  IF lo < Deg(180) /\ One * num - CosT(lo + 1) * den < CosT(lo) * den - One * num
             THEN lo + 1
             ELSE lo

\* line 109
true_solar_time(clock, time_offset) == (clock + time_offset) % Minutes(DayMinutes)

\* lines 112-115; true_solar_time / 4 is in degrees
hour_angle(tst) == IF tst < 0 THEN tst + Deg(180) ELSE tst - Deg(180)

\* an exception leaves sun_position: no position is returned
SunRaised(error, tst, ha) ==
    [raised |-> TRUE, error |-> error, true_solar_time |-> tst, hour_angle |-> ha]

\* A variant whose morning branch does not reduce the azimuth mod 360.
sun_position_unreduced(clock, time_offset, lat, sun_declin, round1, round2) ==
    LET tst == true_solar_time(clock, time_offset)
        ha == hour_angle(tst)
        cos_zenith == Clamp(RoundDiv(SinT(lat) * SinT(sun_declin)
                        + RoundDiv(CosT(lat) * CosT(sun_declin), One) * CosT(ha), One) + round1)
        zenith == AcosDeg(cos_zenith, One)
        num == RoundDiv(SinT(lat) * cos_zenith, One) - SinT(sun_declin) + round2
        den == RoundDiv(CosT(lat) * SinOfAcos(cos_zenith), One)
    IN  IF den = 0 THEN SunRaised("ZeroDivisionError", tst, ha)
        ELSE IF Abs(num) > Abs(den) THEN SunRaised("ValueError", tst, ha)
        ELSE [raised |-> FALSE, true_solar_time |-> tst, hour_angle |-> ha,
              cos_zenith |-> cos_zenith,
              altitude |-> Deg(90) - zenith,
              azimuth |-> IF ha > 0
                          THEN (AcosDeg(num, den) + Deg(180)) % FULL
                          ELSE Deg(540) - AcosDeg(num, den)]

\* lines 107-142.  The quotient of lines 134-135 and 139-140 goes to
\* math.acos as it is: a zero divisor raises ZeroDivisionError, a quotient
\* outside [-1, 1] raises ValueError (math domain error).
sun_position(clock, time_offset, lat, sun_declin, round1, round2) ==
    LET tst == true_solar_time(clock, time_offset)
        ha == hour_angle(tst)
        cos_zenith == Clamp(RoundDiv(SinT(lat) * SinT(sun_declin)
                        + RoundDiv(CosT(lat) * CosT(sun_declin), One) * CosT(ha), One) + round1)
        zenith == AcosDeg(cos_zenith, One)
        num == RoundDiv(SinT(lat) * cos_zenith, One) - SinT(sun_declin) + round2
        den == RoundDiv(CosT(lat) * SinOfAcos(cos_zenith), One)
    IN  IF den = 0 THEN SunRaised("ZeroDivisionError", tst, ha)
        ELSE IF Abs(num) > Abs(den) THEN SunRaised("ValueError", tst, ha)
        ELSE [raised |-> FALSE, true_solar_time |-> tst, hour_angle |-> ha,
              cos_zenith |-> cos_zenith,
              altitude |-> Deg(90) - zenith,
              azimuth |-> IF ha > 0
                          THEN (AcosDeg(num, den) + Deg(180)) % FULL
                          ELSE (Deg(540) - AcosDeg(num, den)) % FULL]

(***************************************************************************)
(* coastline_analyzer.py: fetch_with_retry and fetch_coastline.            *)
(*                                                                         *)
(* The network is an input: each request of fetch_with_retry ends in an    *)
(* outcome (a response, an HTTPError with its code, a URLError, a          *)
(* TimeoutError, or another exception), and each of the two queries of     *)
(* fetch_coastline ends in the list of ways its fetcher returns (empty     *)
(* when the fetch failed, lines 202-204 and 228-230).                      *)
(***************************************************************************)
\* max_retries: int = 5, line 114
DefaultRetries == 5

\* timeout = 45 + (attempt * 20), line 124
BaseTimeout == 45

TimeoutStep == 20

\* wait_time = (2 ** attempt) * 3, lines 130, 138 and 145
BaseWait == 3

\* e.code in (429, 504, 503, 502), line 129
RetryableCodes == {429, 504, 503, 502}

NoCode == 0

Response == [kind |-> "response", code |-> NoCode]

HTTPError(code) == [kind |-> "HTTPError", code |-> code]

URLError == [kind |-> "URLError", code |-> NoCode]

TimeoutError == [kind |-> "TimeoutError", code |-> NoCode]

\* any exception that no except clause names, such as a JSONDecodeError
OtherError == [kind |-> "Exception", code |-> NoCode]

\* the locals of fetch_with_retry when the loop starts, line 118
retry_start ==
    [pc |-> "loop", attempt |-> 0, timeouts |-> <<>>, sleeps |-> <<>>,
     outcome |-> None, code |-> NoCode, result |-> None]

\* A variant that sleeps before it gives up on the last attempt.
retry_attempt_sleeps_last(max_retries, s, outcome) ==
    LET timeout == BaseTimeout + s.attempt * TimeoutStep
        requested == [s EXCEPT !.timeouts = Append(s.timeouts, timeout), !.outcome = outcome.kind,
                                  !.code = outcome.code]
        wait_time == (2 ^ s.attempt) * BaseWait
        retried == [requested EXCEPT !.sleeps = Append(s.sleeps, wait_time), !.attempt = s.attempt + 1]
        raised == [requested EXCEPT !.pc = "raised"]
        slept_raised == [requested EXCEPT !.sleeps = Append(s.sleeps, wait_time), !.pc = "raised"]
    IN  IF outcome.kind = "response" THEN [requested EXCEPT !.pc = "done", !.result = "json"]
        ELSE IF outcome.kind = "HTTPError" /\ outcome.code \notin RetryableCodes THEN raised
        ELSE IF outcome.kind \in {"HTTPError", "URLError", "TimeoutError"}
             THEN IF s.attempt < max_retries - 1 THEN retried ELSE slept_raised
             ELSE raised

\* A variant that goes on to the next turn after the last attempt failed.
retry_attempt_swallows(max_retries, s, outcome) ==
    LET timeout == BaseTimeout + s.attempt * TimeoutStep
        requested == [s EXCEPT !.timeouts = Append(s.timeouts, timeout), !.outcome = outcome.kind,
                                  !.code = outcome.code]
        wait_time == (2 ^ s.attempt) * BaseWait
        retried == [requested EXCEPT !.sleeps = Append(s.sleeps, wait_time), !.attempt = s.attempt + 1]
        raised == [requested EXCEPT !.pc = "raised"]
    IN  IF outcome.kind = "response" THEN [requested EXCEPT !.pc = "done", !.result = "json"]
        ELSE IF outcome.kind = "HTTPError" /\ outcome.code \notin RetryableCodes THEN raised
        ELSE IF outcome.kind \in {"HTTPError", "URLError", "TimeoutError"}
             THEN IF s.attempt < max_retries - 1
                  THEN retried
                  ELSE [requested EXCEPT !.attempt = s.attempt + 1]
             ELSE raised

\* lines 119-149, one turn of the loop: the request of this attempt and
\* what its outcome leads to
retry_attempt(max_retries, s, outcome) ==
    LET timeout == BaseTimeout + s.attempt * TimeoutStep
        requested == [s EXCEPT !.timeouts = Append(s.timeouts, timeout), !.outcome = outcome.kind,
                                  !.code = outcome.code]
        wait_time == (2 ^ s.attempt) * BaseWait
        retried == [requested EXCEPT !.sleeps = Append(s.sleeps, wait_time), !.attempt = s.attempt + 1]
        raised == [requested EXCEPT !.pc = "raised"]
    IN  IF outcome.kind = "response" THEN [requested EXCEPT !.pc = "done", !.result = "json"]
        ELSE IF outcome.kind = "HTTPError" /\ outcome.code \notin RetryableCodes THEN raised
        ELSE IF outcome.kind \in {"HTTPError", "URLError", "TimeoutError"}
             THEN IF s.attempt < max_retries - 1 THEN retried ELSE raised
             ELSE raised

\* line 151: the loop is over, the empty dict is returned
retry_exhausted(s) == [s EXCEPT !.pc = "done", !.result = "{}"]

\* A variant that takes every shoreline found after an empty ocean query,
\* and every empty one too, for a lake.
fetch_coastline_lake_by_default(ocean, lake) ==
    IF ocean # <<>>
    THEN [ways |-> ocean, is_lake |-> FALSE, queries |-> <<"ocean">>]
    ELSE [ways |-> lake, is_lake |-> TRUE, queries |-> <<"ocean", "lake">>]

\* lines 161-184; ocean and lake are what _fetch_ocean_coastline and
\* _fetch_lake_shoreline return if called, queries the calls made
fetch_coastline(ocean, lake) ==
    IF ocean # <<>>
    THEN [ways |-> ocean, is_lake |-> FALSE, queries |-> <<"ocean">>]
    ELSE IF lake # <<>>
         THEN [ways |-> lake, is_lake |-> TRUE, queries |-> <<"ocean", "lake">>]
         ELSE [ways |-> <<>>, is_lake |-> FALSE, queries |-> <<"ocean", "lake">>]

(***************************************************************************)
(* Input sets.                                                             *)
(***************************************************************************)
\* Sunset azimuths, all in [0, 360) as sun_position returns them.
AzValues ==
    {HalfDeg, Deg(5), Deg(20), Deg(200), Deg(230), Deg(240),
     Deg(245), Deg(245) + HalfDeg, Deg(246), Deg(246) + HalfDeg, Deg(247),
     Deg(247) + HalfDeg, Deg(248), Deg(248) + HalfDeg, Deg(249),
     Deg(249) + HalfDeg, Deg(250),
     Deg(295), Deg(300), Deg(310), Deg(350), Deg(358), Deg(359) + HalfDeg}

\* (ocean_view_start, ocean_view_end): curated windows and a computed one.
Windows ==
    {<<Deg(230), Deg(295)>>, <<Deg(330), Deg(90)>>,
     <<Deg(310), Deg(30)>>, <<Deg(270), Deg(360)>>}

Obstructions ==
    {[obs_start |-> Deg(180), obs_end |-> Deg(230), description |-> "Promthep Cape"],
     [obs_start |-> Deg(250), obs_end |-> Deg(360), description |-> "Northern headland"],
     [obs_start |-> Deg(350), obs_end |-> Deg(10), description |-> "Offshore rock"]}

ScenicFeatures ==
    {[az_center |-> Deg(247), az_width |-> Deg(2) + HalfDeg, name |-> "Koh Man Island"],
     [az_center |-> Deg(359), az_width |-> Deg(3), name |-> "Islet"]}

Beaches ==
    {[ocean_view_start |-> w[1], ocean_view_end |-> w[2],
      obstructions |-> o, scenic_features |-> s] :
        w \in Windows,
        o \in SeqsUpTo(Obstructions, MaxObstructions),
        s \in SeqsUpTo(ScenicFeatures, MaxScenic)}

(***************************************************************************)
(* Shorelines handed to analyze_coastline: n segments whose distances and  *)
(* bearings follow a few shapes (already sorted, reversed, tied, scattered,*)
(* straddling the 1000 m limit; straight, curved and doubling-back lines). *)
(***************************************************************************)
MaxSegments == 12

DistShapes == {"increasing", "decreasing", "tied", "scattered", "edge"}

DistAt(shape, i) ==
    CASE shape = "increasing" -> 90 * i
      [] shape = "decreasing" -> 1100 - 80 * i
      [] shape = "tied"       -> 500
      [] shape = "scattered"  -> ((370 * i) % 1100) + 5
      [] shape = "edge"       -> 940 + 30 * i

BearingBases == {Deg(150), Deg(260)}

BearingSteps == {0, Deg(1) + HalfDeg, Deg(4), Deg(10), Deg(25), Deg(180)}

Shoreline(n, shape, base, step) ==
    [i \in 1..n |-> [dist |-> DistAt(shape, i),
                     bearing |-> (base + step * (i - 1)) % FULL]]

Shorelines ==
    {Shoreline(n, shape, base, step) :
        n \in 1..MaxSegments, shape \in DistShapes,
        base \in BearingBases, step \in BearingSteps}

NoCoastline == [segs |-> <<>>, is_lake |-> FALSE]

CoastlineDatas == {[segs |-> s, is_lake |-> l] : s \in Shorelines, l \in BOOLEAN}

NotFetched == [fetched |-> FALSE]

Radii == {2000, 8000}

LakeBearings == {NoCenter, Deg(100), Deg(280)}

TieAngles == {Deg(0), Deg(135)}

Cape == [kind |-> "cape", name |-> "Cape", bearing |-> Deg(350), distance_m |-> 3000]

Peninsula ==
    [kind |-> "peninsula", name |-> "Peninsula", bearing |-> Deg(240), distance_m |-> 12000]

Cliff == [kind |-> "cliff", name |-> "Cliff", bearing |-> Deg(350), distance_m |-> 500]

NearIsland ==
    [kind |-> "island", name |-> "Near island", bearing |-> Deg(355), distance_m |-> 9999]

FarIsland ==
    [kind |-> "island", name |-> "Far island", bearing |-> Deg(355), distance_m |-> 10000]

InlandCape == [kind |-> "cape", name |-> "Inland cape", bearing |-> Deg(100), distance_m |-> 800]

\* What fetch_nearby_features returns, flattened in the order capes,
\* peninsulas, cliffs, islands.
FeatureLists ==
    {<<>>,
     <<Cape, Peninsula, Cliff, NearIsland, FarIsland>>,
     <<InlandCape, FarIsland>>}

\* Altitude curves: ordinary days whose sunset falls early, late, on a
\* sampled instant, at the 12 h mark and after it; the polar night and the
\* polar day; a day whose sun is not yet up, or already down, at local noon.
Remote == 5 * ScanLimit

DayCurve(k, u) == [rise |-> <<0 - 70, 0>>, set |-> <<k, u>>]

PolarNightCurve == [rise |-> <<0 - Remote, 0>>, set |-> <<0 - Remote, 0>>]

PolarDayCurve == [rise |-> <<0 - Remote, 0>>, set |-> <<Remote, 0>>]

LateSunriseCurve == [rise |-> <<10, 5>>, set |-> <<60, 1000>>]

AlreadySetCurve == [rise |-> <<0 - 100, 0>>, set |-> <<0 - 5, 0>>]

Curves ==
    {DayCurve(0, 150000000), DayCurve(71, 123456789), DayCurve(72, 0),
     DayCurve(100, 1), DayCurve(100, 299999999),
     DayCurve(143, 299999999), DayCurve(144, 0), DayCurve(144, 1),
     DayCurve(150, 7), DayCurve(199, 5), DayCurve(200, 5),
     PolarNightCurve, PolarDayCurve, LateSunriseCurve, AlreadySetCurve}

\* Clock times of day, every hour; eq_time + 4 * lon for a few longitudes
\* (whole hours, so that the sun crosses the meridian on a sampled time).
Clocks == {Minutes(60 * h) : h \in 0..23}

TimeOffsets == {Minutes(0 - 720), Minutes(0 - 420), Minutes(0), Minutes(420)}

\* Latitudes short of the poles, and declinations of the year; two pairs
\* are equal (the sun passes the zenith), none is opposite (the nadir,
\* where math.sin(math.radians(180.0)) is 1.2e-16, which the table cannot
\* hold).
Latitudes ==
    {Deg(0 - 80), Deg(0 - 66) - HalfDeg, Deg(0 - 23) - HalfDeg, Deg(0), Deg(10),
     Deg(45), Deg(66) + HalfDeg, Deg(80)}

Declinations == {Deg(0 - 23) - HalfDeg, Deg(10), Deg(20)}

Roundings == {0 - 1, 0, 1}

\* What a request can end in: a response, the four retried HTTP codes and
\* two others, a connection error, a timeout, another exception.
Outcomes ==
    {Response, URLError, TimeoutError, OtherError}
        \cup {HTTPError(code) : code \in RetryableCodes \cup {404, 500}}

RetryCounts == 0..DefaultRetries

\* What a fetcher returns: up to two ways, none when nothing was found or
\* the fetch failed.
MaxWays == 2

WayLists == SeqsUpTo({"way1", "way2"}, MaxWays)

\* Whether the unit vectors of the sample cancel, so that `tie' is read.
Cancels(segs) ==
    LET sample == sample_segments(segs)
        n == Len(sample)
    IN  /\ SeqSum([k \in 1..n |-> SinT(ocean_direction(segs[sample[k]].bearing))], n) = 0
        /\ SeqSum([k \in 1..n |-> CosT(ocean_direction(segs[sample[k]].bearing))], n) = 0

\* Arguments of the containment test: in and out of [0, 360).
BearingValues ==
    {Deg(-350), Deg(-10), Deg(0), Deg(10), Deg(20), Deg(200), Deg(310),
     Deg(350), Deg(359) + HalfDeg, Deg(360), Deg(370), Deg(710)}

(***************************************************************************)
(* The state machine.                                                      *)
(***************************************************************************)
Init ==
    /\ op = "idle"
    /\ args = NoCall
    /\ ret = NoCall

IsBearingInRange ==
    /\ op = "idle"
    /\ \E b \in BearingValues, s \in BearingValues, e \in BearingValues :
        /\ op' = "is_bearing_in_range"
        /\ args' = [bearing |-> b, start |-> s, end |-> e]
        /\ ret' = [result |-> is_bearing_in_range(b, s, e)]

CheckSunset ==
    /\ op = "idle"
    /\ \E beach \in Beaches, az \in AzValues :
        /\ op' = "check_sunset"
        /\ args' = [beach |-> beach, az |-> az]
        /\ ret' = check_sunset(beach, az)

AnalyzeHorizon ==
    /\ op = "idle"
    /\ \E beach \in Beaches, az \in AzValues :
        /\ op' = "analyze_horizon"
        /\ args' = [beach |-> beach, az |-> az]
        /\ ret' = analyze_horizon(beach, az)

AnalyzeSunsetVisibility ==
    /\ op = "idle"
    /\ \E beach \in Beaches, az \in AzValues :
        /\ op' = "analyze_sunset_visibility"
        /\ args' = [beach |-> beach, az |-> az]
        /\ ret' = analyze_sunset_visibility(beach, az)

AnalyzeCoastline ==
    /\ op = "idle"
    /\ \E radius_m \in Radii, retry \in BOOLEAN :
       \E found \in CoastlineDatas \cup (IF retry THEN {NoCoastline} ELSE {}) :
       \E bearing_to_lake \in (IF found.is_lake THEN LakeBearings ELSE {NoCenter}),
          features \in (IF found.segs = <<>> THEN {<<>>} ELSE FeatureLists),
          tie \in (IF found.segs # <<>> /\ Cancels(found.segs)
                   THEN TieAngles ELSE {Deg(0)}) :
        LET first == IF retry THEN NoCoastline ELSE found
            second == IF retry THEN found ELSE NotFetched
        IN  /\ op' = "analyze_coastline"
            /\ args' = [radius_m |-> radius_m, first |-> first, second |-> second,
                        bearing_to_lake |-> bearing_to_lake,
                        features |-> features, tie |-> tie]
            /\ ret' = analyze_coastline(radius_m, first, second, bearing_to_lake,
                                        features, tie)

CreateBeachFromCoords ==
    /\ op = "idle"
    /\ \E retry \in BOOLEAN :
       \E found \in CoastlineDatas \cup (IF retry THEN {NoCoastline} ELSE {}) :
       \E bearing_to_lake \in (IF found.is_lake THEN LakeBearings ELSE {NoCenter}),
          features \in (IF found.segs = <<>> THEN {<<>>} ELSE FeatureLists),
          tie \in (IF found.segs # <<>> /\ Cancels(found.segs)
                   THEN TieAngles ELSE {Deg(0)}) :
        LET first == IF retry THEN NoCoastline ELSE found
            second == IF retry THEN found ELSE NotFetched
        IN  /\ op' = "create_beach_from_coords"
            /\ args' = [first |-> first, second |-> second,
                        bearing_to_lake |-> bearing_to_lake,
                        features |-> features, tie |-> tie]
            /\ ret' = create_beach_from_coords(first, second, bearing_to_lake,
                                               features, tie)

\* find_sunset runs turn by turn; its locals are kept in ret until it
\* returns or raises.
FindSunset ==
    /\ op = "idle"
    /\ \E curve \in Curves :
        /\ op' = "find_sunset"
        /\ args' = [curve |-> curve]
        /\ ret' = [pc |-> "scan", dt |-> 0]

CoarseScan ==
    /\ op = "find_sunset"
    /\ ret.pc = "scan"
    /\ ret' = scan_step(args.curve, ret.dt)
    /\ UNCHANGED <<op, args>>

Bisect ==
    /\ op = "find_sunset"
    /\ ret.pc = "bisect"
    /\ ret.i < BisectIterations
    /\ ret' = bisect_step(args.curve, ret)
    /\ UNCHANGED <<op, args>>

FinalPosition ==
    /\ op = "find_sunset"
    /\ ret.pc = "bisect"
    /\ ret.i = BisectIterations
    /\ ret' = final_position(args.curve, ret)
    /\ UNCHANGED <<op, args>>

Return ==
    /\ op # "idle"
    /\ op \in {"find_sunset", "fetch_with_retry"} => ret.pc \in {"done", "raised"}
    /\ op' = "idle"
    /\ args' = NoCall
    /\ ret' = NoCall

Next ==
    \/ IsBearingInRange
    \/ CheckSunset
    \/ AnalyzeHorizon
    \/ AnalyzeSunsetVisibility
    \/ AnalyzeCoastline
    \/ CreateBeachFromCoords
    \/ Return

Spec == Init /\ [][Next]_vars

\* The calls of sun_position.
SunPosition ==
    /\ op = "idle"
    /\ \E clock \in Clocks, time_offset \in TimeOffsets, lat \in Latitudes,
          sun_declin \in Declinations, round1 \in Roundings, round2 \in Roundings :
        /\ op' = "sun_position"
        /\ args' = [clock |-> clock, time_offset |-> time_offset, lat |-> lat,
                    sun_declin |-> sun_declin, round1 |-> round1, round2 |-> round2]
        /\ ret' = sun_position(clock, time_offset, lat, sun_declin, round1, round2)

SunNext ==
    \/ SunPosition
    \/ Return

SunSpec == Init /\ [][SunNext]_vars

\* The calls of fetch_coastline, and those of fetch_with_retry, which runs
\* attempt by attempt; its locals are kept in ret until it returns or raises.
FetchCoastline ==
    /\ op = "idle"
    /\ \E ocean \in WayLists, lake \in WayLists :
        /\ op' = "fetch_coastline"
        /\ args' = [ocean |-> ocean, lake |-> lake]
        /\ ret' = fetch_coastline(ocean, lake)

FetchWithRetry ==
    /\ op = "idle"
    /\ \E max_retries \in RetryCounts :
        /\ op' = "fetch_with_retry"
        /\ args' = [max_retries |-> max_retries]
        /\ ret' = retry_start

Attempt ==
    /\ op = "fetch_with_retry"
    /\ ret.pc = "loop"
    /\ ret.attempt < args.max_retries
    /\ \E outcome \in Outcomes : ret' = retry_attempt(args.max_retries, ret, outcome)
    /\ UNCHANGED <<op, args>>

Exhausted ==
    /\ op = "fetch_with_retry"
    /\ ret.pc = "loop"
    /\ ret.attempt >= args.max_retries
    /\ ret' = retry_exhausted(ret)
    /\ UNCHANGED <<op, args>>

FetchNext ==
    \/ FetchCoastline
    \/ FetchWithRetry
    \/ Attempt
    \/ Exhausted
    \/ Return

FetchSpec == Init /\ [][FetchNext]_vars

\* The calls of find_sunset, which runs turn by turn.
SolverNext ==
    \/ FindSunset
    \/ CoarseScan
    \/ Bisect
    \/ FinalPosition
    \/ Return

SolverSpec == Init /\ [][SolverNext]_vars

\* find_sunset is straight-line code around its two loops: once called, the
\* next turn of a loop, or the statement after it, is always taken.
SolverFair ==
    /\ SolverSpec
    /\ WF_vars(CoarseScan)
    /\ WF_vars(Bisect)
    /\ WF_vars(FinalPosition)

(***************************************************************************)
(* The specification's containment: az lies on the arc that runs clockwise *)
(* from start to end.  The properties below are stated with it, not with   *)
(* the code's own tests.                                                   *)
(***************************************************************************)
OnArc(az, start, end) == (az - start) % FULL <= (end - start) % FULL

InWindow == OnArc(args.az, args.beach.ocean_view_start, args.beach.ocean_view_end)

ObstructionsHolding ==
    {i \in 1..Len(args.beach.obstructions) :
        OnArc(args.az, args.beach.obstructions[i].obs_start,
              args.beach.obstructions[i].obs_end)}

ScenicHolding ==
    {i \in 1..Len(args.beach.scenic_features) :
        LET f == args.beach.scenic_features[i]
        IN  OnArc(args.az, f.az_center - f.az_width, f.az_center + f.az_width)}

Resolvers == {"check_sunset", "analyze_horizon", "analyze_sunset_visibility"}

Verdict == IF op = "analyze_horizon" THEN ret.is_visible ELSE ret.sun_sets_over_ocean

ReportedLabel == IF op = "check_sunset" THEN ret.obstruction ELSE ret.label

\* C1: is_bearing_in_range normalises its three arguments mod 360 (it holds
\* exactly on the clockwise arc from start to end) and is true when the
\* bearing equals start and when it equals end, wraparound pairs included.
C1_BoundariesInside ==
    op = "is_bearing_in_range" =>
        /\ ret.result = OnArc(args.bearing, args.start, args.end)
        /\ (args.bearing - args.start) % FULL = 0 => ret.result = TRUE
        /\ (args.bearing - args.end) % FULL = 0 => ret.result = TRUE

C1_Witness ==
    /\ op = "is_bearing_in_range"
    /\ args.start = Deg(350) /\ args.end = Deg(10)
    /\ args.bearing \in {Deg(10), Deg(370)}
    /\ ret.result = TRUE

\* C2: a sunset azimuth outside the view window gives the verdict not-visible
\* with the reason "outside view range" and no obstruction label, also when
\* the azimuth lies inside an obstruction interval.
C2_OutsideWindowFirst ==
    (op \in Resolvers /\ ~InWindow) =>
        /\ Verdict = FALSE
        /\ ReportedLabel = None
        /\ op = "check_sunset" => print_results_reason(ret) = "outside ocean view range"

\* C3: inside the window, an azimuth inside some obstruction interval gives
\* not-visible with the label of an obstruction holding it; an azimuth inside
\* no obstruction interval gives visible.
C3_ObstructionDecides ==
    (op \in Resolvers /\ InWindow) =>
        IF ObstructionsHolding # {}
        THEN /\ Verdict = FALSE
             /\ \E i \in ObstructionsHolding :
                    ReportedLabel = args.beach.obstructions[i].description
        ELSE Verdict = TRUE

\* C4: the view-window test is wraparound-aware in check_sunset and in
\* analyze_horizon: with a window whose start exceeds its end (310..30) an
\* azimuth of 20 is inside and one of 200 is outside.
C4_WindowWraps ==
    (/\ op \in {"check_sunset", "analyze_horizon"}
     /\ args.beach.ocean_view_start > args.beach.ocean_view_end
     /\ args.beach.obstructions = <<>>) =>
        Verdict = InWindow

\* C5: the obstruction test and the scenic-feature test normalise their
\* azimuths and are wraparound-aware: an interval holds exactly the azimuths
\* on the arc from its start clockwise to its end.
C5_EveryIntervalWraps ==
    /\ op = "check_sunset" =>
        /\ (ret.obstruction # None) = (ObstructionsHolding # {})
        /\ (ret.scenic_feature.name # None) = (ScenicHolding # {})
    /\ (op = "analyze_horizon" /\ ret.reason \in {"clear", "blocked"}) =>
        (ret.reason = "blocked") = (ObstructionsHolding # {})
    /\ (op = "analyze_sunset_visibility" /\ ret.sun_sets_over_ocean) =>
        (ret.scenic_feature.name # None) = (ScenicHolding # {})

\* C6: with a visible verdict and the azimuth inside a scenic feature, the
\* alignment is "direct" under 1 degree from the feature's centre, "adjacent"
\* from 1 to under 1.5 degrees and "nearby" beyond; nothing else is produced.
ClaimedAlignment(d) ==
    IF d < Deg(1) THEN "direct"
    ELSE IF d < Deg(1) + HalfDeg THEN "adjacent"
    ELSE "nearby"

C6_AlignmentTiers ==
    (/\ op \in {"check_sunset", "analyze_sunset_visibility"}
     /\ ret.sun_sets_over_ocean
     /\ ret.scenic_feature.name # None) =>
        /\ ret.scenic_feature.alignment \in {"direct", "adjacent", "nearby"}
        /\ \E i \in 1..Len(args.beach.scenic_features) :
            /\ ret.scenic_feature.name = args.beach.scenic_features[i].name
            /\ ret.scenic_feature.alignment =
                 ClaimedAlignment(AngDist(args.az, args.beach.scenic_features[i].az_center))

\* C7: scenic alignment never changes the outcome: for a fixed azimuth, view
\* window and obstruction list the over-water boolean is the one obtained
\* with no scenic feature at all.
WithoutScenic == [args.beach EXCEPT !.scenic_features = <<>>]

C7_ScenicLeavesVerdict ==
    /\ op = "check_sunset" =>
        ret.sun_sets_over_ocean = check_sunset(WithoutScenic, args.az).sun_sets_over_ocean
    /\ op = "analyze_sunset_visibility" =>
        ret.sun_sets_over_ocean =
            analyze_sunset_visibility(WithoutScenic, args.az).sun_sets_over_ocean

C7_Witness ==
    /\ op = "check_sunset"
    /\ ret.sun_sets_over_ocean
    /\ ret.scenic_feature.name = "Koh Man Island"
    /\ args.beach.obstructions = <<>>

(***************************************************************************)
(* analyze_coastline: what the properties read from a finished call.       *)
(***************************************************************************)
Analyzed == op = "analyze_coastline" /\ ret.error = None

UsedData == IF args.first.segs = <<>> THEN args.second ELSE args.first

UsedSegs == UsedData.segs

\* The indices of the segments under 1000 m.
Within(segs) == {i \in 1..Len(segs) : segs[i].dist < NearbyLimit}

Range(s) == {s[k] : k \in 1..Len(s)}

Dirs(segs, sample) ==
    [k \in 1..Len(sample) |-> ocean_direction(segs[sample[k]].bearing)]

\* The half-width of the returned window.
HalfWidth == (ret.ocean_view_end - ret.facing_azimuth) % FULL

\* The water bearing of a segment as the specification defines it: the
\* right-hand normal of the travel bearing, turned round when the source is
\* a lake whose known centre lies more than 90 degrees away from it.
WaterBearing(seg) ==
    LET wb == (seg.bearing + Deg(90)) % FULL
    IN  IF /\ UsedData.is_lake
           /\ args.bearing_to_lake # NoCenter
           /\ AngDist(wb, args.bearing_to_lake) > Deg(90)
        THEN (wb + Deg(180)) % FULL
        ELSE wb

\* C8: with at least 3 segments within 1000 m, the maximum deviation from
\* the circular mean decides half-width and confidence: under 10 degrees
\* (60, high), from 10 to under 25 (50, medium), from 25 on (40, medium); so
\* the half-width is 40, 50 or 60 and it is 60 exactly when confidence is high.
C8_DispersionTiers ==
    Analyzed =>
        LET segs == UsedSegs
            dirs == Dirs(segs, sample_segments(segs))
            dev == max_deviation(dirs, avg_ocean_dir(dirs, args.tie))
            hw == HalfWidth
        IN  Cardinality(Within(segs)) >= 3 =>
            /\ dev < Deg(10) => hw = Deg(60) /\ ret.confidence = "high"
            /\ (dev >= Deg(10) /\ dev < Deg(25)) =>
                    hw = Deg(50) /\ ret.confidence = "medium"
            /\ dev >= Deg(25) => hw = Deg(40) /\ ret.confidence = "medium"
            /\ hw \in {Deg(40), Deg(50), Deg(60)}
            /\ (hw = Deg(60)) = (ret.confidence = "high")

C8_Witness ==
    /\ Analyzed
    /\ LET segs == UsedSegs
           dirs == Dirs(segs, sample_segments(segs))
       IN  /\ Cardinality(Within(segs)) >= 3
           /\ max_deviation(dirs, avg_ocean_dir(dirs, args.tie)) = Deg(10)
    /\ HalfWidth = Deg(50)
    /\ ret.confidence = "medium"

\* C9: with fewer than 3 segments within 1000 m the window has half-width
\* 50 and confidence "low", and it faces the water bearing of the closest
\* segment alone: nothing is averaged.
C9_FallbackToClosest ==
    Analyzed =>
        LET segs == UsedSegs
        IN  Cardinality(Within(segs)) < 3 =>
            /\ HalfWidth = Deg(50)
            /\ ret.confidence = "low"
            /\ \E i \in 1..Len(segs) :
                /\ \A j \in 1..Len(segs) : segs[i].dist <= segs[j].dist
                /\ ret.facing_azimuth = WaterBearing(segs[i])

C9_Witness ==
    /\ Analyzed
    /\ LET segs == UsedSegs
       IN  /\ Len(segs) >= 3
           /\ Cardinality(Within(segs)) = 2
           /\ segs[1].bearing # segs[Len(segs)].bearing
    /\ ret.confidence = "low"

\* C10: the sample behind the circular mean holds only segments within
\* 1000 m, at most 10 of them, and the nearest ones: no segment within
\* 1000 m that is left out is strictly closer than one that is taken.
C10_NearestTenSample ==
    Analyzed =>
        LET segs == UsedSegs
            within == Within(segs)
            sample == sample_segments(segs)
            taken == Range(sample)
            mean == avg_ocean_dir(Dirs(segs, sample), args.tie)
        IN  Cardinality(within) >= 3 =>
            /\ taken \subseteq within
            /\ Cardinality(taken) = Len(sample)
            /\ Len(sample) <= 10
            /\ Len(sample) = (IF Cardinality(within) < 10 THEN Cardinality(within) ELSE 10)
            /\ \A i \in within \ taken : \A k \in taken :
                    ~(segs[i].dist < segs[k].dist)
            /\ ret.facing_azimuth \in {mean, (mean + Deg(180)) % FULL}

C10_Witness ==
    /\ Analyzed
    /\ LET segs == UsedSegs
           sample == sample_segments(segs)
       IN  /\ Cardinality(Within(segs)) > 10
           /\ Len(sample) = 10
           /\ \E i \in Within(segs) \ Range(sample) : i < sample[1]

\* The facing azimuth before the lake check, and whether the check turns it.
Aggregated == orientation(UsedSegs, args.tie).facing_azimuth

Turned(pre) ==
    /\ UsedData.is_lake
    /\ args.bearing_to_lake # NoCenter
    /\ AngDist(pre, args.bearing_to_lake) > Deg(90)

\* C11: the window is laid round the final facing azimuth, the one left by
\* the lake check: start = (facing - halfWidth) mod 360 and end = (facing +
\* halfWidth) mod 360 with halfWidth 40, 50 or 60; both bounds lie in
\* [0, 360), the arc from start clockwise to end is 2 * halfWidth wide, and
\* the facing azimuth lies on it.
C11_WindowRoundFinalFacing ==
    Analyzed =>
        LET pre == Aggregated
            facing == ret.facing_azimuth
            start == ret.ocean_view_start
            end == ret.ocean_view_end
        IN  /\ facing = (IF Turned(pre) THEN (pre + Deg(180)) % FULL ELSE pre)
            /\ \E hw \in {Deg(40), Deg(50), Deg(60)} :
                /\ start = (facing - hw) % FULL
                /\ end = (facing + hw) % FULL
                /\ (end - start) % FULL = 2 * hw
            /\ start \in 0..(FULL - 1)
            /\ end \in 0..(FULL - 1)
            /\ OnArc(facing, start, end)
            /\ is_bearing_in_range(facing, start, end)

C11_Witness ==
    /\ Analyzed
    /\ Turned(Aggregated)
    /\ ret.facing_azimuth # Aggregated
    /\ ret.confidence = "high"
    /\ ret.ocean_view_end = (ret.facing_azimuth + Deg(60)) % FULL

\* C12: the lake correction acts on each segment before the segments are
\* aggregated: on a lake with a known centre, the facing azimuth is the
\* circular mean of the sample's water bearings after each one that lies
\* more than 90 degrees from the bearing to the centre has been turned by
\* 180 degrees (with fewer than 3 segments within 1000 m, the turned or
\* unturned water bearing of the closest segment).
C12_LakeCorrectionPerSegment ==
    (Analyzed /\ UsedData.is_lake /\ args.bearing_to_lake # NoCenter) =>
        LET segs == UsedSegs
            sample == sample_segments(segs)
            n == Len(sample)
            corrected == [k \in 1..n |-> WaterBearing(segs[sample[k]])]
            cancels == /\ SeqSum([k \in 1..n |-> SinT(corrected[k])], n) = 0
                       /\ SeqSum([k \in 1..n |-> CosT(corrected[k])], n) = 0
        IN  IF Cardinality(Within(segs)) >= 3
            THEN cancels \/
                 AngDist(ret.facing_azimuth, avg_ocean_dir(corrected, args.tie)) <= HalfDeg
            ELSE \E i \in 1..Len(segs) :
                    /\ \A j \in 1..Len(segs) : segs[i].dist <= segs[j].dist
                    /\ ret.facing_azimuth = WaterBearing(segs[i])

\* C13: the analyzer fails with its no-shoreline error as soon as the data
\* for the requested radius is empty; it fetches the shoreline once, for the
\* requested radius, and never a second time with another radius.
C13_NoInternalRetry ==
    op = "analyze_coastline" =>
        /\ ret.fetches = <<args.radius_m>>
        /\ args.first.segs = <<>> => ret.error = "InlandLocationError"

\* The features of the call, as a set.
Features == Range(args.features)

Advised(f) == f.name \in Range(ret.headland_warnings)

\* C14: every cape, peninsula and cliff whose bearing lies inside the view
\* window is reported as an advisory, whatever its distance.
C14_HeadlandsAlwaysReported ==
    Analyzed =>
        \A f \in Features :
            (/\ f.kind \in {"cape", "peninsula", "cliff"}
             /\ OnArc(f.bearing, ret.ocean_view_start, ret.ocean_view_end))
                => Advised(f)

\* C15: an island is reported exactly when its bearing lies inside the view
\* window and it is strictly less than 10000 m away.
C15_IslandCutoff ==
    Analyzed =>
        \A f \in Features :
            f.kind = "island" =>
                (Advised(f) <=>
                    /\ OnArc(f.bearing, ret.ocean_view_start, ret.ocean_view_end)
                    /\ f.distance_m < 10000)

C15_Witness ==
    /\ Analyzed
    /\ NearIsland \in Features
    /\ FarIsland \in Features
    /\ OnArc(FarIsland.bearing, ret.ocean_view_start, ret.ocean_view_end)
    /\ ret.ocean_view_start > ret.ocean_view_end
    /\ Advised(NearIsland)
    /\ ~Advised(FarIsland)

\* The same analysis run with no nearby features at all.
Unadvised(radius_m) ==
    analyze_coastline(radius_m, args.first, args.second, args.bearing_to_lake,
                      <<>>, args.tie)

\* C16: the nearby features only add advisory labels.  Whatever list of
\* features an analysis is given, its facing azimuth, window bounds and
\* confidence are those of the same analysis without any feature; and the
\* beach built from an analysis carries an empty obstruction list and the
\* window of the analysis without features.
C16_FeaturesOnlyAdvise ==
    /\ (Analyzed /\ args.features # <<>>) =>
            LET bare == Unadvised(args.radius_m)
            IN  /\ bare.facing_azimuth = ret.facing_azimuth
                /\ bare.ocean_view_start = ret.ocean_view_start
                /\ bare.ocean_view_end = ret.ocean_view_end
                /\ bare.confidence = ret.confidence
    /\ op = "create_beach_from_coords" =>
            /\ ret.obstructions = <<>>
            /\ args.features # <<>> =>
                    LET bare == Unadvised(DefaultRadius)
                    IN  /\ ret.ocean_view_start = bare.ocean_view_start
                        /\ ret.ocean_view_end = bare.ocean_view_end
                        /\ ret.notes.confidence = bare.confidence

C16_Witness ==
    /\ op = "create_beach_from_coords"
    /\ Len(args.features) > 0
    /\ Len(ret.notes.warnings) >= 2
    /\ ret.obstructions = <<>>

(***************************************************************************)
(* find_sunset: what the properties read from a call.                      *)
(***************************************************************************)
Solving == op = "find_sunset"

\* The instants of the specification's pre-scan: every 2 hours (24 steps)
\* from 12 h before the anchor to 12 h after it.
PreScan == {<<24 * j, 0>> : j \in (0 - 6)..6}

Target(t) == AltitudeSign(args.curve, t)

\* C17: when the altitude is below the target at every pre-scan instant,
\* find_sunset returns no position, and what it raises is PolarNight.
C17_PolarNightFails ==
    (Solving /\ \A t \in PreScan : Target(t) < 0) =>
        /\ ret.pc # "done"
        /\ ret.pc = "raised" => ret.error = "PolarNight"

\* C18: when the altitude is above the target at every pre-scan instant,
\* find_sunset returns no position, and what it raises is PolarDay, a
\* condition of its own, apart from PolarNight and SolverDivergence.
C18_PolarDayTyped ==
    (Solving /\ \A t \in PreScan : Target(t) > 0) =>
        /\ ret.pc # "done"
        /\ ret.pc = "raised" => ret.error = "PolarDay"

\* C19: the coarse scan samples every 5 minutes from the anchor and stops
\* at the first sample below the target; it gives up only past the 200th
\* step, so a first sample below the target at any step up to the 200th
\* is found and the bisection starts on the 5 minutes before it.
C19_ScanCappedAt200 ==
    Solving =>
        LET below == {k \in 0..200 : Target(<<k, 0>>) < 0}
        IN  /\ ret.pc = "scan" =>
                /\ ret.dt <= 200
                /\ \A k \in below : ret.dt <= k
            /\ ret.pc = "raised" => below = {}
            /\ ret.pc \in {"bisect", "done"} =>
                /\ below # {}
                /\ ret.base + 1 = SetMin(below)

\* C20: the bisection starts on a 5-minute interval and runs 20 turns.  At
\* the start and after every turn the altitude at low is not below the
\* target, the altitude at high is not above it, low <= high, and the
\* interval is the initial one halved once per turn (to the microsecond);
\* the instant returned after the 20th turn lies inside the initial
\* interval.
C20_BisectionBrackets ==
    (Solving /\ ret.pc \in {"bisect", "done"}) =>
        LET p == 2 ^ ret.i
        IN  /\ ret.i \in 0..20
            /\ Target(Instant(ret.base, ret.low)) >= 0
            /\ Target(Instant(ret.base, ret.high)) <= 0
            /\ 0 <= ret.low /\ ret.low <= ret.high /\ ret.high <= StepUs
            /\ (ret.high - ret.low) \in {StepUs \div p, (StepUs + p - 1) \div p}
            /\ ret.pc = "done" =>
                /\ ret.i = 20
                /\ \E u \in {ret.low + HalfOf(ret.high - ret.low)} :
                    /\ ret.time = Instant(ret.base, u)
                    /\ ret.low <= u /\ u <= ret.high

\* C21: both loops of find_sunset are bounded: a call never takes more than
\* 200 turns of the coarse scan nor more than 20 turns of the bisection,
\* and every call comes to an end, with a position or with an error.
C21_SolverTerminates ==
    /\ [](Solving =>
            /\ ret.pc \in {"scan", "raised"} => ret.dt <= 200
            /\ ret.pc \in {"bisect", "done"} => (ret.base + 1 <= 200 /\ ret.i <= 20))
    /\ (Solving ~> (Solving /\ ret.pc \in {"done", "raised"}))

\* a call whose scan ran to the last sample inside the 12 hours and whose
\* bisection then ran its 20 turns
C21_Witness ==
    /\ Solving
    /\ ret.pc = "done"
    /\ ret.base + 1 = ScanLimit
    /\ ret.i = BisectIterations

(***************************************************************************)
(* sun_position: what the properties read from a call.                     *)
(***************************************************************************)
Sunning == op = "sun_position"

\* C22: sun_position is total: every call returns a position and none
\* raises a domain or a division error; with the sun at the zenith
\* (sin(zenith) = 0) the azimuth returned is the fixed value 180.
C22_SunPositionTotal ==
    Sunning =>
        /\ ret.raised = FALSE
        /\ SinOfAcos(ret.cos_zenith) = 0 => ret.azimuth = Deg(180)

\* C23: a position returned by sun_position has its altitude in [-90, 90]
\* and its azimuth in [0, 360), 360 excluded.
C23_PositionInRange ==
    (Sunning /\ ret.raised = FALSE) =>
        /\ Deg(0 - 90) <= ret.altitude /\ ret.altitude <= Deg(90)
        /\ Deg(0) <= ret.azimuth /\ ret.azimuth < Deg(360)

\* the sun due north on the meridian before the reduction: 540 - 180 = 360,
\* returned as 0
C23_Witness ==
    /\ Sunning
    /\ ret.raised = FALSE
    /\ ret.hour_angle = Deg(0)
    /\ ret.azimuth = Deg(0)

\* C24: the hour angle lies in (-180, 180]: -180 is never produced, and a
\* true solar time of 0 gives +180.
C24_HourAngleHalfOpen ==
    Sunning =>
        /\ Deg(0 - 180) < ret.hour_angle /\ ret.hour_angle <= Deg(180)
        /\ ret.true_solar_time = 0 => ret.hour_angle = Deg(180)

(***************************************************************************)
(* fetch_coastline and fetch_with_retry: what the properties read.         *)
(***************************************************************************)
\* C25: fetch_coastline queries the ocean coastline first and the lake
\* shorelines only when the ocean query gave nothing; is_lake is true
\* exactly when the ocean result is empty and the lake result is not, the
\* ways returned are those of the query that found some, and with both
\* results empty it returns no ways and is_lake false.
C25_OceanThenLake ==
    op = "fetch_coastline" =>
        /\ ret.queries = IF args.ocean = <<>> THEN <<"ocean", "lake">> ELSE <<"ocean">>
        /\ ret.is_lake = (args.ocean = <<>> /\ args.lake # <<>>)
        /\ ret.ways = IF args.ocean # <<>> THEN args.ocean ELSE args.lake
        /\ (args.ocean = <<>> /\ args.lake = <<>>) => (ret.ways = <<>> /\ ret.is_lake = FALSE)

\* nothing at the ocean query, nothing at the lake query
C25_Witness ==
    /\ op = "fetch_coastline"
    /\ args.ocean = <<>>
    /\ args.lake = <<>>
    /\ ret.queries = <<"ocean", "lake">>

Retrying == op = "fetch_with_retry"

\* Whether the last attempt ended in a failure that the function retries:
\* a retried HTTP code, a URLError or a TimeoutError.
LastRetryable ==
    \/ ret.outcome \in {"URLError", "TimeoutError"}
    \/ ret.outcome = "HTTPError" /\ ret.code \in {429, 502, 503, 504}

\* The attempts so far that ended in such a failure: all but the last one,
\* and the last one too if it did.
RetryableFailures ==
    IF Len(ret.timeouts) > 0 /\ ~LastRetryable THEN Len(ret.timeouts) - 1 ELSE Len(ret.timeouts)

ClaimedTimeouts == <<45, 65, 85, 105, 125>>

ClaimedSleeps == <<3, 6, 12, 24, 48>>

C27_RetryBounded ==
    Retrying =>
        /\ Len(ret.timeouts) <= args.max_retries
        /\ (ret.outcome = "HTTPError" /\ ret.code \notin {429, 502, 503, 504}) =>
                /\ ret.pc = "raised"
                /\ Len(ret.sleeps) = Len(ret.timeouts) - 1
        /\ (Len(ret.timeouts) = args.max_retries /\ Len(ret.timeouts) > 0 /\ LastRetryable) =>
                ret.pc = "raised"
        /\ (args.max_retries >= 1 /\ ret.pc = "done") => ret.result = "json"

\* a 404 at the third attempt of five, raised after two sleeps
C27_Witness ==
    /\ Retrying
    /\ args.max_retries = 5
    /\ ret.pc = "raised"
    /\ ret.outcome = "HTTPError"
    /\ ret.code = 404
    /\ Len(ret.timeouts) = 3
    /\ Len(ret.sleeps) = 2

\* C28: on a lake with a known centre the facing azimuth returned lies
\* within 90 degrees of the bearing from the query point to the centre, and
\* the aggregated direction is turned by 180 degrees at most once: what is
\* returned is that direction, or its opposite when it pointed more than 90
\* degrees away from the centre.
C28_LakeFacingTowardsCentre ==
    (Analyzed /\ UsedData.is_lake /\ args.bearing_to_lake # NoCenter) =>
        LET pre == Aggregated
        IN  /\ AngDist(ret.facing_azimuth, args.bearing_to_lake) <= Deg(90)
            /\ ret.facing_azimuth = IF Turned(pre) THEN (pre + Deg(180)) % FULL ELSE pre

\* a lake shore whose aggregated direction pointed away from the centre
C28_Witness ==
    /\ Analyzed
    /\ UsedData.is_lake
    /\ args.bearing_to_lake # NoCenter
    /\ AngDist(Aggregated, args.bearing_to_lake) > Deg(90)
    /\ AngDist(ret.facing_azimuth, args.bearing_to_lake) < Deg(90)

\* C29: on a window with start <= end the two resolvers agree: for the
\* same beach and the same sunset azimuth, the sun_sets_over_ocean of
\* check_sunset equals the is_visible of analyze_horizon.
C29_ResolversAgree ==
    (op \in {"check_sunset", "analyze_horizon"}
        /\ args.beach.ocean_view_start <= args.beach.ocean_view_end) =>
            /\ Verdict = analyze_horizon(args.beach, args.az).is_visible
            /\ Verdict = check_sunset(args.beach, args.az).sun_sets_over_ocean

\* a sunset inside the window and inside an obstruction, seen by
\* check_sunset: blocked for both
C29_Witness ==
    /\ op = "check_sunset"
    /\ args.beach.ocean_view_start <= args.az
    /\ args.az <= args.beach.ocean_view_end
    /\ ObstructionHits(args.beach, args.az) # {}
    /\ ret.sun_sets_over_ocean = FALSE
    /\ analyze_horizon(args.beach, args.az).reason = "blocked"

\* C30: when the shoreline data for the requested radius is empty, the
\* search is expanded: the radius of the second fetch, which is the radius
\* reported (analysis_radius_m, and the radius of the inland error), is
\* never smaller than the radius requested.
C30_ExpandedRadiusNotSmaller ==
    (op = "analyze_coastline" /\ args.first.segs = <<>>) =>
        /\ Len(ret.fetches) = 2
        /\ ret.fetches[2] >= args.radius_m
        /\ ret.radius_m = ret.fetches[2]
        /\ ret.error = None => ret.analysis_radius_m = ret.fetches[2]

====
